---- MODULE Spec2Model ----
(***************************************************************************)
(* bsec/rpi/bin/bsec_py_wrapper.c: the wrapper around the BSEC engine.     *)
(*                                                                         *)
(* py_bsec_init is modelled statement by statement (one action per shared  *)
(* write and per engine call), so that two invocations can interleave;     *)
(* py_bsec_do_steps is one action.  The engine is opaque: each engine call *)
(* returns a status, and writes its in/out count, chosen from small sets.  *)
(* Floats are written in tenths (25.0f is 250, 0.5f is 5).                 *)
(***************************************************************************)
EXTENDS Integers, Sequences, FiniteSets, TLC

VARIABLES
    requested_virtual_sensors,    \* static array, line 10
    n_requested_virtual_sensors,  \* static count, line 11
    sync,                         \* do the callers serialize py_bsec_init?
    pc,                           \* per thread: position inside py_bsec_init
    n_required_sensor_settings,   \* per thread: the local of line 58
    ret,                          \* per thread: value returned by py_bsec_init
    trace,                        \* per thread: engine calls of this invocation
    log,                          \* per thread: lines printed by this invocation
    entry,                        \* per thread: the statics when it was entered
    iaq,                          \* caller's cell behind float *iaq
    iaq_accuracy,                 \* caller's cell behind int *iaq_accuracy
    co2_equivalent,               \* caller's cell behind float *co2_equivalent
    breath_voc_equivalent,        \* caller's cell behind float *breath_voc_equivalent
    step,                         \* the last py_bsec_do_steps call, as it went
    running,                      \* scheduler: the thread that ran last (0: none)
    preemptions                   \* scheduler: switches away from a thread in flight

initVars == <<requested_virtual_sensors, n_requested_virtual_sensors, sync, pc,
              n_required_sensor_settings, ret, trace, log, entry>>
stepVars == <<iaq, iaq_accuracy, co2_equivalent, breath_voc_equivalent, step>>
schedVars == <<running, preemptions>>
vars == <<initVars, stepVars, schedVars>>

----------------------------------------------------------------------------
\* Engine constants (inc/bsec_datatypes.h, shipped with the engine).

BSEC_OK == 0

BSEC_MAX_PHYSICAL_SENSOR == 8

\* Size of the static request array and of the local outputs buffer.
NSlots == 8

Slots == 0 .. (NSlots - 1)

Threads == {1, 2}

\* Most preemptions (switches away from a thread inside py_bsec_init) in a run.
MaxPreemptions == 1

MainThread == {1}

\* Statuses the engine calls are let to return.
InitStatuses == {BSEC_OK, -104}

ConfigStatuses == {BSEC_OK, -33, -34}

SubscriptionStatuses == {BSEC_OK, -12, 10}

RaceStatuses == {BSEC_OK, -12}

\* What bsec_update_subscription may leave in its in/out count: any number
\* of settings up to the capacity it was given.
AnyCount == [cap \in 0 .. BSEC_MAX_PHYSICAL_SENSOR |-> 0 .. cap]

\* An engine that leaves the count as it was.
SameCount == [cap \in 0 .. BSEC_MAX_PHYSICAL_SENSOR |-> {cap}]

\* The eight identifiers, in the order of lines 30-51.
SensorIds ==
    <<"BSEC_OUTPUT_IAQ", "BSEC_OUTPUT_STATIC_IAQ", "BSEC_OUTPUT_CO2_EQUIVALENT",
      "BSEC_OUTPUT_BREATH_VOC_EQUIVALENT", "BSEC_OUTPUT_COMPENSATED_GAS",
      "BSEC_OUTPUT_GAS_PERCENTAGE", "BSEC_OUTPUT_STABILIZATION_STATUS",
      "BSEC_OUTPUT_RUN_IN_STATUS">>

\* Sample rate of a tier; "0" is the zero a static starts with.
RateOf(tier) ==
    CASE tier = "LP" -> "BSEC_SAMPLE_RATE_LP"
      [] tier = "SCAN" -> "BSEC_SAMPLE_RATE_SCAN"
      [] tier = "ULP" -> "BSEC_SAMPLE_RATE_ULP"

ZeroSensor == [sensor_id |-> "0", sample_rate |-> "0"]

----------------------------------------------------------------------------
\* Helpers.

At(t, label) == pc[t].at = label

InFlight(t) == pc[t].at \notin {"idle", "done"}

Goto(t, label) == pc' = [pc EXCEPT ![t] = [at |-> label, k |-> 0]]

\* printf
Printf(t, lines) == log' = [log EXCEPT ![t] = log[t] \o lines]

\* One engine call, as the engine saw it.
EngineCall(fn, site, st, cap) ==
    [fn |-> fn, site |-> site, status |-> st,
     sensors |-> IF fn = "bsec_update_subscription"
                 THEN requested_virtual_sensors ELSE <<>>,
     n |-> IF fn = "bsec_update_subscription"
           THEN n_requested_virtual_sensors ELSE 0,
     cap |-> cap]

Record(t, call) == trace' = [trace EXCEPT ![t] = Append(trace[t], call)]

Return(t, value) ==
    /\ ret' = [ret EXCEPT ![t] = value]
    /\ Goto(t, "done")

----------------------------------------------------------------------------
\* py_bsec_init

Init_init ==
    /\ requested_virtual_sensors = [i \in Slots |-> ZeroSensor]
    /\ n_requested_virtual_sensors = 1
    /\ pc = [t \in Threads |-> [at |-> "idle", k |-> 0]]
    /\ n_required_sensor_settings = [t \in Threads |-> 0]
    /\ ret = [t \in Threads |-> 0]
    /\ trace = [t \in Threads |-> <<>>]
    /\ log = [t \in Threads |-> <<>>]
    /\ entry = [t \in Threads |->
                  [sensors |-> requested_virtual_sensors,
                   n |-> n_requested_virtual_sensors]]

\* Entry with the status check of lines 16-18 left out.
Entry_IgnoreStatus(t, S, again) ==
    /\ At(t, "idle") \/ (again /\ At(t, "done"))
    /\ sync => \A u \in Threads \ {t} : ~InFlight(u)
    /\ \E st \in S :
        trace' = [trace EXCEPT ![t] = <<EngineCall("bsec_init", "bsec_init", st, 0)>>]
    /\ Goto(t, "set_configuration")
    /\ log' = [log EXCEPT ![t] = <<"BSEC basic init successful">>]
    /\ entry' = [entry EXCEPT ![t] = [sensors |-> requested_virtual_sensors,
                                      n |-> n_requested_virtual_sensors]]
    /\ UNCHANGED <<requested_virtual_sensors, n_requested_virtual_sensors, sync,
                   n_required_sensor_settings, ret>>

\* Lines 13-20: entry, bsec_init, the early return.  With external
\* synchronisation (sync) an invocation starts only when no other is in flight;
\* again says whether a thread that has returned calls py_bsec_init again.
Entry(t, S, again) ==
    /\ At(t, "idle") \/ (again /\ At(t, "done"))
    /\ sync => \A u \in Threads \ {t} : ~InFlight(u)
    /\ \E st \in S :
        /\ trace' = [trace EXCEPT ![t] = <<EngineCall("bsec_init", "bsec_init", st, 0)>>]
        /\ IF st # BSEC_OK
           THEN /\ Return(t, st)
                /\ log' = [log EXCEPT ![t] = <<>>]
           ELSE /\ Goto(t, "set_configuration")
                /\ log' = [log EXCEPT ![t] = <<"BSEC basic init successful">>]
                /\ UNCHANGED ret
    /\ entry' = [entry EXCEPT ![t] = [sensors |-> requested_virtual_sensors,
                                      n |-> n_requested_virtual_sensors]]
    /\ UNCHANGED <<requested_virtual_sensors, n_requested_virtual_sensors, sync,
                   n_required_sensor_settings>>

\* SetConfiguration with a failed load returned to the caller.
SetConfiguration_Fatal(t, S) ==
    /\ At(t, "set_configuration")
    /\ \E st \in S :
        /\ Record(t, EngineCall("bsec_set_configuration", "bsec_set_configuration", st, 0))
        /\ IF st # BSEC_OK
           THEN /\ Printf(t, <<"Config from .h file failed (trying without config)">>)
                /\ Return(t, st)
           ELSE /\ Printf(t, <<"LP mode config from .h file loaded successfully">>)
                /\ Goto(t, "fill_LP")
                /\ UNCHANGED ret
    /\ UNCHANGED <<requested_virtual_sensors, n_requested_virtual_sensors, sync,
                   n_required_sensor_settings, entry>>

\* Lines 22-27: the configuration blob; its status is printed and dropped.
SetConfiguration(t, S) ==
    /\ At(t, "set_configuration")
    /\ \E st \in S :
        /\ Record(t, EngineCall("bsec_set_configuration", "bsec_set_configuration", st, 0))
        /\ IF st # BSEC_OK
           THEN Printf(t, <<"Config from .h file failed (trying without config)">>)
           ELSE Printf(t, <<"LP mode config from .h file loaded successfully">>)
    /\ Goto(t, "fill_LP")
    /\ UNCHANGED <<requested_virtual_sensors, n_requested_virtual_sensors, sync,
                   n_required_sensor_settings, ret, entry>>

\* FillLP with line 54 left out: the count keeps what it held.
FillLP_NoCount(t) ==
    /\ At(t, "fill_LP")
    /\ LET k == pc[t].k
           i == k \div 2
       IN  /\ IF k < 2 * NSlots
              THEN /\ requested_virtual_sensors' =
                        [requested_virtual_sensors EXCEPT ![i] =
                            IF k % 2 = 0
                            THEN [@ EXCEPT !.sensor_id = SensorIds[i + 1]]
                            ELSE [@ EXCEPT !.sample_rate = RateOf("LP")]]
                   /\ pc' = [pc EXCEPT ![t].k = k + 1]
                   /\ UNCHANGED n_required_sensor_settings
              ELSE /\ n_required_sensor_settings' =
                        [n_required_sensor_settings EXCEPT ![t] = BSEC_MAX_PHYSICAL_SENSOR]
                   /\ Goto(t, "call_LP")
                   /\ UNCHANGED requested_virtual_sensors
    /\ UNCHANGED <<n_requested_virtual_sensors, sync, ret, trace, log, entry>>

\* Lines 30-58, one statement a step: statement 2i writes entry i's
\* sensor_id, statement 2i+1 its sample_rate; statement 16 is line 54
\* together with the local initialisation of line 58.
FillLP(t) ==
    /\ At(t, "fill_LP")
    /\ LET k == pc[t].k
           i == k \div 2
       IN  /\ IF k < 2 * NSlots
              THEN /\ requested_virtual_sensors' =
                        [requested_virtual_sensors EXCEPT ![i] =
                            IF k % 2 = 0
                            THEN [@ EXCEPT !.sensor_id = SensorIds[i + 1]]
                            ELSE [@ EXCEPT !.sample_rate = RateOf("LP")]]
                   /\ pc' = [pc EXCEPT ![t].k = k + 1]
                   /\ UNCHANGED <<n_requested_virtual_sensors,
                                  n_required_sensor_settings>>
              ELSE /\ n_requested_virtual_sensors' = 8
                   /\ n_required_sensor_settings' =
                        [n_required_sensor_settings EXCEPT ![t] = BSEC_MAX_PHYSICAL_SENSOR]
                   /\ Goto(t, "call_LP")
                   /\ UNCHANGED requested_virtual_sensors
    /\ UNCHANGED <<sync, ret, trace, log, entry>>

\* FillRate with the last entry's statement left out.
FillRate_SkipLast(t, tier) ==
    /\ At(t, "fill_" \o tier)
    /\ LET i == pc[t].k
       IN  /\ requested_virtual_sensors' =
                [requested_virtual_sensors EXCEPT ![i].sample_rate = RateOf(tier)]
           /\ IF i + 2 < NSlots
              THEN pc' = [pc EXCEPT ![t].k = i + 1]
              ELSE Goto(t, "call_" \o tier)
    /\ UNCHANGED <<n_requested_virtual_sensors, sync, n_required_sensor_settings,
                   ret, trace, log, entry>>

\* Lines 73-88 and 103-110: statement i writes entry i's sample_rate.
FillRate(t, tier) ==
    /\ At(t, "fill_" \o tier)
    /\ LET i == pc[t].k
       IN  /\ requested_virtual_sensors' =
                [requested_virtual_sensors EXCEPT ![i].sample_rate = RateOf(tier)]
           /\ IF i + 1 < NSlots
              THEN pc' = [pc EXCEPT ![t].k = i + 1]
              ELSE Goto(t, "call_" \o tier)
    /\ UNCHANGED <<n_requested_virtual_sensors, sync, n_required_sensor_settings,
                   ret, trace, log, entry>>

FillSCAN(t) == FillRate(t, "SCAN")

FillULP(t) == FillRate(t, "ULP")

\* bsec_update_subscription(requested_virtual_sensors, n_requested_virtual_sensors,
\* required_sensor_settings, &n_required_sensor_settings): the engine reads
\* the statics, returns st and leaves c in the in/out count.
UpdateSubscription(t, site, st, c) ==
    /\ Record(t, EngineCall("bsec_update_subscription", site, st,
                            n_required_sensor_settings[t]))
    /\ n_required_sensor_settings' = [n_required_sensor_settings EXCEPT ![t] = c]

\* SubscribeLP that goes on to SCAN whatever the status.
SubscribeLP_NoReturn(t, S, K) ==
    /\ At(t, "call_LP")
    /\ \E st \in S, c \in K[n_required_sensor_settings[t]] :
        UpdateSubscription(t, "LP", st, c)
    /\ Printf(t, <<"LP mode (3s intervals) result", "LP failed, trying SCAN mode">>)
    /\ Goto(t, "fill_SCAN")
    /\ UNCHANGED <<requested_virtual_sensors, n_requested_virtual_sensors, sync,
                   entry, ret>>

\* Lines 60-72.
SubscribeLP(t, S, K) ==
    /\ At(t, "call_LP")
    /\ \E st \in S, c \in K[n_required_sensor_settings[t]] :
        /\ UpdateSubscription(t, "LP", st, c)
        /\ IF st = BSEC_OK
           THEN /\ Printf(t, <<"LP mode (3s intervals) result",
                               "Success with LP mode - 3 second intervals!">>)
                /\ Return(t, 0)
           ELSE /\ Printf(t, <<"LP mode (3s intervals) result",
                               "LP failed, trying SCAN mode">>)
                /\ Goto(t, "fill_SCAN")
                /\ UNCHANGED ret
    /\ UNCHANGED <<requested_virtual_sensors, n_requested_virtual_sensors, sync, entry>>

\* Lines 90-102.
SubscribeSCAN(t, S, K) ==
    /\ At(t, "call_SCAN")
    /\ \E st \in S, c \in K[n_required_sensor_settings[t]] :
        /\ UpdateSubscription(t, "SCAN", st, c)
        /\ IF st = BSEC_OK
           THEN /\ Printf(t, <<"SCAN mode (18s intervals) result",
                               "Success with SCAN mode - 18 second intervals!">>)
                /\ Return(t, 0)
           ELSE /\ Printf(t, <<"SCAN mode (18s intervals) result",
                               "SCAN failed, falling back to ULP">>)
                /\ Goto(t, "fill_ULP")
                /\ UNCHANGED ret
    /\ UNCHANGED <<requested_virtual_sensors, n_requested_virtual_sensors, sync, entry>>

\* SubscribeULP that returns -1 for every failure.
SubscribeULP_Generic(t, S, K) ==
    /\ At(t, "call_ULP")
    /\ \E st \in S, c \in K[n_required_sensor_settings[t]] :
        /\ UpdateSubscription(t, "ULP", st, c)
        /\ Return(t, IF st = BSEC_OK THEN 0 ELSE -1)
    /\ UNCHANGED <<requested_virtual_sensors, n_requested_virtual_sensors, sync,
                   log, entry>>

\* Lines 111-115.
SubscribeULP(t, S, K) ==
    /\ At(t, "call_ULP")
    /\ \E st \in S, c \in K[n_required_sensor_settings[t]] :
        /\ UpdateSubscription(t, "ULP", st, c)
        /\ Return(t, st)
    /\ UNCHANGED <<requested_virtual_sensors, n_requested_virtual_sensors, sync,
                   log, entry>>

----------------------------------------------------------------------------
\* py_bsec_do_steps.  It shares no state with py_bsec_init: its buffers are
\* locals and its results go to the caller's four cells.

\* Largest output count the engine is let to report (a uint8 in the code).
MaxCount == 9

\* Leading entries of the outputs buffer that vary freely; the entries after
\* them all hold one more freely chosen entry.
MaxVaried == 2

\* Lines 165-168.
DEFAULT_IAQ == 250

DEFAULT_IAQ_ACCURACY == 0

DEFAULT_CO2_EQUIVALENT == 4000

DEFAULT_BREATH_VOC_EQUIVALENT == 5

StepStatuses == {BSEC_OK, -1, 3}

Output(id, signal, accuracy) ==
    [sensor_id |-> id, signal |-> signal, accuracy |-> accuracy]

\* Entries the engine is let to write into the outputs buffer.
OutputEntries ==
    {Output("BSEC_OUTPUT_IAQ", 420, 3),
     Output("BSEC_OUTPUT_CO2_EQUIVALENT", 6000, 2),
     Output("BSEC_OUTPUT_BREATH_VOC_EQUIVALENT", 12, 1),
     Output("BSEC_OUTPUT_STATIC_IAQ", 300, 3)}

\* What the stack may hold right after the 8-slot buffer.
BeyondEntries ==
    {Output("0", 0, 0),
     Output("BSEC_OUTPUT_IAQ", 990, 1),
     Output("BSEC_OUTPUT_CO2_EQUIVALENT", 9990, 0)}

\* What a caller puts in its four cells before a call.
CallerValues ==
    {[iaq |-> -10, iaq_accuracy |-> -1, co2_equivalent |-> -10,
      breath_voc_equivalent |-> -10]}

Cells ==
    [iaq |-> iaq, iaq_accuracy |-> iaq_accuracy, co2_equivalent |-> co2_equivalent,
     breath_voc_equivalent |-> breath_voc_equivalent]

\* The buffer as the engine left it: w, then copies of f.
OutputsBuffer(w, f) == [i \in Slots |-> IF i < Len(w) THEN w[i + 1] ELSE f]

\* outputs[i] of line 171: inside the buffer the slot, past it whatever the
\* stack holds there.
ReadOutput(outputs, beyond, i) == IF i < NSlots THEN outputs[i] ELSE beyond

\* Lines 171-182: the switch on one output.
Switch(o, acc) ==
    CASE o.sensor_id = "BSEC_OUTPUT_IAQ" ->
            [acc EXCEPT !.iaq = o.signal, !.iaq_accuracy = o.accuracy]
      [] o.sensor_id = "BSEC_OUTPUT_CO2_EQUIVALENT" ->
            [acc EXCEPT !.co2_equivalent = o.signal]
      [] o.sensor_id = "BSEC_OUTPUT_BREATH_VOC_EQUIVALENT" ->
            [acc EXCEPT !.breath_voc_equivalent = o.signal]
      [] OTHER -> acc

\* Lines 170-183: for (uint8_t i = 0; i < n_outputs; i++).
RECURSIVE ExtractLoop(_, _, _, _, _)
ExtractLoop(i, n_outputs, outputs, beyond, acc) ==
    IF i < n_outputs
    THEN ExtractLoop((i + 1) % 256, n_outputs, outputs, beyond,
                     [Switch(ReadOutput(outputs, beyond, i), acc)
                        EXCEPT !.reads = @ \cup {i}])
    ELSE acc

\* StepResult with the defaults of lines 165-168 written before the status
\* check of line 160.
StepResult_DefaultsFirst(st, n_outputs, outputs, beyond, cells) ==
    LET defaults == [iaq |-> DEFAULT_IAQ, iaq_accuracy |-> DEFAULT_IAQ_ACCURACY,
                     co2_equivalent |-> DEFAULT_CO2_EQUIVALENT,
                     breath_voc_equivalent |-> DEFAULT_BREATH_VOC_EQUIVALENT,
                     reads |-> {}, ret |-> 0]
    IN  IF st # BSEC_OK
        THEN [defaults EXCEPT !.ret = st]
        ELSE ExtractLoop(0, n_outputs, outputs, beyond, defaults)

\* Lines 160-188: what the call leaves in the cells, what it returns, and
\* the indices of outputs it read.
StepResult(st, n_outputs, outputs, beyond, cells) ==
    IF st # BSEC_OK
    THEN [iaq |-> cells.iaq, iaq_accuracy |-> cells.iaq_accuracy,
          co2_equivalent |-> cells.co2_equivalent,
          breath_voc_equivalent |-> cells.breath_voc_equivalent,
          reads |-> {}, ret |-> st]
    ELSE ExtractLoop(0, n_outputs, outputs, beyond,
                     [iaq |-> DEFAULT_IAQ, iaq_accuracy |-> DEFAULT_IAQ_ACCURACY,
                      co2_equivalent |-> DEFAULT_CO2_EQUIVALENT,
                      breath_voc_equivalent |-> DEFAULT_BREATH_VOC_EQUIVALENT,
                      reads |-> {}, ret |-> 0])

\* The caller, about to call: nothing of the coming call is known yet.
AboutToCall ==
    [at |-> "caller", status |-> BSEC_OK, n_outputs |-> 0,
     outputs |-> [i \in Slots |-> Output("0", 0, 0)], beyond |-> Output("0", 0, 0),
     before |-> CHOOSE v \in CallerValues : TRUE, ret |-> 0, reads |-> {}]

Init_step ==
    /\ \E v \in CallerValues :
        /\ iaq = v.iaq
        /\ iaq_accuracy = v.iaq_accuracy
        /\ co2_equivalent = v.co2_equivalent
        /\ breath_voc_equivalent = v.breath_voc_equivalent
    /\ step = AboutToCall

\* Between two calls the caller either puts its own values in the cells or
\* leaves what the previous call left there.
CallerPrepare ==
    /\ step.at = "returned"
    /\ \E v \in CallerValues \cup {Cells} :
        /\ iaq' = v.iaq
        /\ iaq_accuracy' = v.iaq_accuracy
        /\ co2_equivalent' = v.co2_equivalent
        /\ breath_voc_equivalent' = v.breath_voc_equivalent
    /\ step' = AboutToCall

\* Lines 128-189.  bsec_do_steps returns st, reports n outputs and leaves
\* the buffer as OutputsBuffer(w, f).
py_bsec_do_steps ==
    /\ step.at = "caller"
    /\ \E st \in StepStatuses, n \in 0 .. MaxCount,
          w \in [1 .. MaxVaried -> OutputEntries],
          f \in OutputEntries, b \in BeyondEntries :
        LET outputs == OutputsBuffer(w, f)
            r == StepResult(st, n, outputs, b, Cells)
        IN  /\ iaq' = r.iaq
            /\ iaq_accuracy' = r.iaq_accuracy
            /\ co2_equivalent' = r.co2_equivalent
            /\ breath_voc_equivalent' = r.breath_voc_equivalent
            /\ step' = [at |-> "returned", status |-> st, n_outputs |-> n,
                        outputs |-> outputs, beyond |-> b, before |-> Cells,
                        ret |-> r.ret, reads |-> r.reads]

----------------------------------------------------------------------------
\* Serialized calls of py_bsec_init from one thread.

Init_sched ==
    /\ running = 0
    /\ preemptions = 0

Init ==
    /\ sync = TRUE
    /\ Init_init
    /\ Init_step
    /\ Init_sched

Next ==
    \E t \in MainThread :
        \/ Entry(t, InitStatuses, TRUE) /\ UNCHANGED <<stepVars, schedVars>>
        \/ SetConfiguration(t, ConfigStatuses) /\ UNCHANGED <<stepVars, schedVars>>
        \/ FillLP(t) /\ UNCHANGED <<stepVars, schedVars>>
        \/ SubscribeLP(t, SubscriptionStatuses, AnyCount) /\ UNCHANGED <<stepVars, schedVars>>
        \/ FillSCAN(t) /\ UNCHANGED <<stepVars, schedVars>>
        \/ SubscribeSCAN(t, SubscriptionStatuses, AnyCount) /\ UNCHANGED <<stepVars, schedVars>>
        \/ FillULP(t) /\ UNCHANGED <<stepVars, schedVars>>
        \/ SubscribeULP(t, SubscriptionStatuses, AnyCount) /\ UNCHANGED <<stepVars, schedVars>>

Spec == Init /\ [][Next]_vars

----------------------------------------------------------------------------
\* Two threads calling py_bsec_init, with (sync) or without external
\* synchronisation.  The engine is kept small here: one failure status, and
\* an in/out count it leaves alone.

InitRace ==
    /\ sync \in BOOLEAN
    /\ Init_init
    /\ Init_step
    /\ Init_sched

\* The scheduler lets t run: taking the processor from a thread that is
\* inside py_bsec_init counts as a preemption.
Schedule(t) ==
    /\ running' = t
    /\ IF running \in Threads \ {t} /\ InFlight(running)
       THEN /\ preemptions < MaxPreemptions
            /\ preemptions' = preemptions + 1
       ELSE UNCHANGED preemptions

NextRace ==
    \E t \in Threads :
        \/ Schedule(t) /\ Entry(t, RaceStatuses, FALSE) /\ UNCHANGED stepVars
        \/ Schedule(t) /\ SetConfiguration(t, RaceStatuses) /\ UNCHANGED stepVars
        \/ Schedule(t) /\ FillLP(t) /\ UNCHANGED stepVars
        \/ Schedule(t) /\ SubscribeLP(t, RaceStatuses, SameCount) /\ UNCHANGED stepVars
        \/ Schedule(t) /\ FillSCAN(t) /\ UNCHANGED stepVars
        \/ Schedule(t) /\ SubscribeSCAN(t, RaceStatuses, SameCount) /\ UNCHANGED stepVars
        \/ Schedule(t) /\ FillULP(t) /\ UNCHANGED stepVars
        \/ Schedule(t) /\ SubscribeULP(t, RaceStatuses, SameCount) /\ UNCHANGED stepVars

SpecRace == InitRace /\ [][NextRace]_vars

----------------------------------------------------------------------------
\* A caller stepping the engine with py_bsec_do_steps.

NextStep ==
    \/ CallerPrepare /\ UNCHANGED <<initVars, schedVars>>
    \/ py_bsec_do_steps /\ UNCHANGED <<initVars, schedVars>>

SpecStep == Init /\ [][NextStep]_vars

----------------------------------------------------------------------------
\* Properties.

Done(t) == At(t, "done")

\* The bsec_update_subscription calls of t's invocation, in call order.
Subs(t) == SelectSeq(trace[t], LAMBDA c : c.fn = "bsec_update_subscription")

\* bsec_init of t's invocation succeeded.
InitOk(t) == trace[t] # <<>> /\ trace[t][1].status = BSEC_OK

Accepted(t) == {j \in 1 .. Len(Subs(t)) : Subs(t)[j].status = BSEC_OK}

Rejected3(t) ==
    /\ Done(t)
    /\ Len(Subs(t)) = 3
    /\ Accepted(t) = {}

TierOrder == <<"LP", "SCAN", "ULP">>

SuccessLines ==
    {"Success with LP mode - 3 second intervals!",
     "Success with SCAN mode - 18 second intervals!"}

Printed(t) == {log[t][j] : j \in 1 .. Len(log[t])}

\* C1: after a successful bsec_init the tiers are attempted in the order
\* LP, SCAN, ULP; a tier is attempted only after every earlier one was
\* rejected, every rejection of LP or SCAN is followed by the next tier, an
\* accepted tier ends the invocation with 0, and so the number of
\* subscription calls of a finished invocation is the index of the first
\* accepted tier, or 3 when none is accepted.
C1_TierOrder ==
    \A t \in Threads :
        LET s == Subs(t)
        IN  /\ Len(s) <= 3
            /\ \A j \in 1 .. Len(s) : s[j].site = TierOrder[j]
            /\ \A j \in 1 .. Len(s) : j < Len(s) => s[j].status # BSEC_OK
            /\ Accepted(t) # {} => Done(t) /\ ret[t] = 0
            /\ (Done(t) /\ InitOk(t)) =>
                    Len(s) = IF Accepted(t) # {}
                             THEN CHOOSE j \in Accepted(t) :
                                    \A m \in Accepted(t) : j <= m
                             ELSE 3

\* LP and SCAN rejected with different statuses, ULP accepted: 0 after 3 calls.
C1_Witness ==
    /\ Done(1)
    /\ Len(Subs(1)) = 3
    /\ Subs(1)[1].status = -12
    /\ Subs(1)[2].status = 10
    /\ Subs(1)[3].status = BSEC_OK
    /\ ret[1] = 0

\* C2: when all three tiers are rejected, py_bsec_init returns the status of
\* the ULP call, which is not 0, and prints neither "Success with ..." line.
C2_AllRejected ==
    \A t \in Threads :
        Rejected3(t) =>
            /\ ret[t] = Subs(t)[3].status
            /\ ret[t] # 0
            /\ Printed(t) \cap SuccessLines = {}

\* All three rejected, the ULP status unlike the two before it.
C2_Witness ==
    /\ Rejected3(1)
    /\ Subs(1)[1].status = 10
    /\ Subs(1)[2].status = 10
    /\ Subs(1)[3].status = -12

ClaimedIds ==
    <<"BSEC_OUTPUT_IAQ", "BSEC_OUTPUT_STATIC_IAQ", "BSEC_OUTPUT_CO2_EQUIVALENT",
      "BSEC_OUTPUT_BREATH_VOC_EQUIVALENT", "BSEC_OUTPUT_COMPENSATED_GAS",
      "BSEC_OUTPUT_GAS_PERCENTAGE", "BSEC_OUTPUT_STABILIZATION_STATUS",
      "BSEC_OUTPUT_RUN_IN_STATUS">>

ClaimedRate ==
    [LP |-> "BSEC_SAMPLE_RATE_LP", SCAN |-> "BSEC_SAMPLE_RATE_SCAN",
     ULP |-> "BSEC_SAMPLE_RATE_ULP"]

\* All eight sample rates of the bundle of call c are the rate of c's tier.
RatesOfTier(c) ==
    \A i \in 0 .. 7 : c.sensors[i].sample_rate = ClaimedRate[c.site]

UniformRates(c) ==
    \A i, j \in 0 .. 7 : c.sensors[i].sample_rate = c.sensors[j].sample_rate

\* C3: every bsec_update_subscription call of serialized py_bsec_init calls
\* gets 8 entries, the eight identifiers in their order, and in all eight
\* entries the sample rate of the tier attempted, also in an invocation that
\* follows one which ended at SCAN or ULP.
C3_BundleAtCall ==
    \A t \in Threads :
        \A j \in 1 .. Len(Subs(t)) :
            LET c == Subs(t)[j]
            IN  /\ c.n = 8
                /\ \A i \in 0 .. 7 : c.sensors[i].sensor_id = ClaimedIds[i + 1]
                /\ RatesOfTier(c)

\* An invocation entered with the bundle a ULP attempt left has made its LP
\* and SCAN calls.
C3_Witness ==
    /\ \A i \in 0 .. 7 : entry[1].sensors[i].sample_rate = "BSEC_SAMPLE_RATE_ULP"
    /\ Len(Subs(1)) = 2

\* C4: every bsec_update_subscription call is given the capacity
\* BSEC_MAX_PHYSICAL_SENSOR in its in/out count, whatever an earlier rejected
\* call left there.
C4_CapacityAtCall ==
    \A t \in Threads :
        \A j \in 1 .. Len(Subs(t)) : Subs(t)[j].cap = BSEC_MAX_PHYSICAL_SENSOR

\* C7: a failed configuration load does not end the invocation: the LP
\* attempt follows, and the value returned is decided by the subscription
\* calls alone (0 when the last one was accepted, else its status).
C7_ConfigNotFatal ==
    \A t \in Threads :
        (Len(trace[t]) >= 2 /\ trace[t][2].status # BSEC_OK) =>
            /\ trace[t][2].fn = "bsec_set_configuration"
            /\ Len(trace[t]) = 2 => InFlight(t)
            /\ Len(trace[t]) >= 3 =>
                 /\ trace[t][3].fn = "bsec_update_subscription"
                 /\ trace[t][3].site = "LP"
                 /\ trace[t][3].n = 8
                 /\ RatesOfTier(trace[t][3])
            /\ Done(t) =>
                 LET last == trace[t][Len(trace[t])]
                 IN  /\ last.fn = "bsec_update_subscription"
                     /\ ret[t] = IF last.status = BSEC_OK THEN 0 ELSE last.status
                     /\ ret[t] \notin ConfigStatuses \ {BSEC_OK}

\* The configuration load failed and py_bsec_init returned 0 from SCAN.
C7_Witness ==
    /\ Done(1)
    /\ Len(trace[1]) = 4
    /\ trace[1][2].status = -33
    /\ trace[1][4].status = BSEC_OK
    /\ ret[1] = 0

\* C10: when bsec_init fails, py_bsec_init returns its status at once, with
\* no other engine call and the statics as they were on entry; py_bsec_init
\* returns 0 exactly when bsec_init succeeded and a tier was accepted, and
\* otherwise the non-zero status of its last engine call.
C10_InitFailure ==
    \A t \in Threads :
        trace[t] # <<>> =>
            /\ trace[t][1].fn = "bsec_init"
            /\ trace[t][1].status # BSEC_OK =>
                 /\ Done(t)
                 /\ Len(trace[t]) = 1
                 /\ ret[t] = trace[t][1].status
                 /\ requested_virtual_sensors = entry[t].sensors
                 /\ n_requested_virtual_sensors = entry[t].n
            /\ Done(t) =>
                 /\ ret[t] = 0 <=> (InitOk(t) /\ Accepted(t) # {})
                 /\ ret[t] # 0 => ret[t] = trace[t][Len(trace[t])].status

\* bsec_init failed in an invocation that found the bundle of an earlier one.
C10_Witness ==
    /\ Done(1)
    /\ trace[1][1].status = -104
    /\ ret[1] = -104
    /\ entry[1].n = 8
    /\ requested_virtual_sensors[7].sample_rate = "BSEC_SAMPLE_RATE_SCAN"

\* C8: with the invocations of py_bsec_init serialized, every
\* bsec_update_subscription call gets eight equal sample rates, those of the
\* tier its invocation is attempting; without synchronisation a call with
\* unequal rates, or with another tier's rates, is reachable (the witness).
C8_SerializedIsCoherent ==
    sync => \A t \in Threads :
                \A j \in 1 .. Len(Subs(t)) : RatesOfTier(Subs(t)[j])

\* Two unsynchronised invocations: thread 1, which bsec_init let through,
\* has called the engine with sample rates that are not all equal.
C8_Witness ==
    /\ ~sync
    /\ trace[2] # <<>>
    /\ \E j \in 1 .. Len(Subs(1)) : ~UniformRates(Subs(1)[j])

Returned == step.at = "returned"

\* C5: when bsec_do_steps fails, py_bsec_do_steps returns its status, not 0,
\* and the four cells hold what they held before the call, whatever outputs
\* and count the engine reported.
C5_FailureLeavesCells ==
    (Returned /\ step.status # BSEC_OK) =>
        /\ step.ret = step.status
        /\ step.ret # 0
        /\ iaq = step.before.iaq
        /\ iaq_accuracy = step.before.iaq_accuracy
        /\ co2_equivalent = step.before.co2_equivalent
        /\ breath_voc_equivalent = step.before.breath_voc_equivalent

\* A failed step whose engine reported outputs, an IAQ entry first, while
\* the cells held the caller's own values.
C5_Witness ==
    /\ Returned
    /\ step.status = 3
    /\ step.n_outputs = 8
    /\ step.outputs[0].sensor_id = "BSEC_OUTPUT_IAQ"
    /\ iaq = -10
    /\ co2_equivalent = -10

\* The entries the engine returned: the first n_outputs slots of the buffer.
ReturnedOutputs == {step.outputs[i] : i \in {k \in 0 .. 7 : k < step.n_outputs}}

WithId(id) == {o \in ReturnedOutputs : o.sensor_id = id}

\* C6: after a successful step py_bsec_do_steps returns 0; iaq and
\* iaq_accuracy are those of a returned BSEC_OUTPUT_IAQ entry, else 25.0 and
\* 0; co2_equivalent is the signal of a returned BSEC_OUTPUT_CO2_EQUIVALENT
\* entry, else 400.0; breath_voc_equivalent is the signal of a returned
\* BSEC_OUTPUT_BREATH_VOC_EQUIVALENT entry, else 0.5.
C6_ResultFromOutputs ==
    (Returned /\ step.status = BSEC_OK) =>
        /\ step.ret = 0
        /\ IF WithId("BSEC_OUTPUT_IAQ") # {}
           THEN \E o \in WithId("BSEC_OUTPUT_IAQ") :
                    iaq = o.signal /\ iaq_accuracy = o.accuracy
           ELSE iaq = 250 /\ iaq_accuracy = 0
        /\ IF WithId("BSEC_OUTPUT_CO2_EQUIVALENT") # {}
           THEN \E o \in WithId("BSEC_OUTPUT_CO2_EQUIVALENT") :
                    co2_equivalent = o.signal
           ELSE co2_equivalent = 4000
        /\ IF WithId("BSEC_OUTPUT_BREATH_VOC_EQUIVALENT") # {}
           THEN \E o \in WithId("BSEC_OUTPUT_BREATH_VOC_EQUIVALENT") :
                    breath_voc_equivalent = o.signal
           ELSE breath_voc_equivalent = 5

\* C9: a successful step reads the outputs buffer at indices 0..7 only.
C9_ReadsInsideBuffer ==
    (Returned /\ step.status = BSEC_OK) => step.reads \subseteq 0 .. 7

====
